---------------------------- MODULE Spec2Model ----------------------------
(***************************************************************************)
(* A model of the OpenSky API client (package opensky): the waypoint       *)
(* decoder parseWaypoint, the track assembler parseTracksResponse, the     *)
(* callsign normalizer CallSignTrim.UnmarshalJSON, the query operations    *)
(* of Client and the transport helper doHTTP.                              *)
(*                                                                         *)
(* Of the two declarations of the package's types under src/unnamed, the   *)
(* model follows part_001, the one that declares CallSignTrim and its      *)
(* UnmarshalJSON method and carries the start and end times as float64.    *)
(***************************************************************************)
EXTENDS Integers, Sequences, FiniteSets, TLC

VARIABLES
    pc,           \* position of the caller: "idle", "parse", "returned", "panicked"
    wpArgs,       \* the arguments (s, i) of the parseWaypoint call
    wpRet,        \* what the parseWaypoint call produced
    csData,       \* the bytes handed to CallSignTrim.UnmarshalJSON
    csValue,      \* the CallSignTrim value after UnmarshalJSON
    client,       \* Client: username, password
    call,         \* the query operation called and its arguments
    request,      \* the *http.Request built by the operation
    httpResponse, \* what httpClient.Do returned for it
    flights,      \* the operation's flights result
    err,          \* the operation's error result
    rawResponse,  \* unstructuredTrackResponse decoded by doHTTP
    response,     \* GetTracksResponse under construction / returned
    loopIdx       \* the range index i of parseTracksResponse's loop

vars == <<pc, wpArgs, wpRet, csData, csValue, client, call, request,
          httpResponse, flights, err, rawResponse, response, loopIdx>>

---------------------------------------------------------------------------
(* Bounds of the model.                                                    *)

\* JSON numbers are carried as integer multiples of 1/Denom.
Denom == 2
\* Waypoint arrays have up to MinArity + MaxExtra elements.
MaxExtra == 3
\* The index i handed to parseWaypoint ranges over 0..MaxIndex.
MaxIndex == 2
\* Raw callsign byte strings of up to MaxRawLen bytes.
MaxRawLen == 4
\* Track payloads carry up to MaxPaths waypoint arrays.
MaxPaths == 3

---------------------------------------------------------------------------
(* Untyped JSON values (Go's interface{} as encoding/json fills it).       *)

JNull == [t |-> "nil", f |-> 0, b |-> FALSE, str |-> ""]
JNum(k) == [t |-> "float64", f |-> k, b |-> FALSE, str |-> ""]
JBool(x) == [t |-> "bool", f |-> 0, b |-> x, str |-> ""]
JStr(x) == [t |-> "string", f |-> 0, b |-> FALSE, str |-> x]

\* Go index into a slice (0-based).
At(s, k) == s[k + 1]

\* time.Time: the zero value, and time.Unix(sec, 0).  The epoch seconds of
\* the bounded inputs are far from the year-1 instant, so a Time made by
\* time.Unix is always distinct from the zero value here.
ZeroTime == [set |-> FALSE, unix |-> 0]
Unix(sec) == [set |-> TRUE, unix |-> sec]
IsZero(t) == ~t.set

\* A *float64: nil, or a pointer to a value.
NilFloat == [present |-> FALSE, v |-> 0]
PtrFloat(k) == [present |-> TRUE, v |-> k]

\* Error values.  kind is the fixed part of the message, the other fields
\* its formatted operands; wrapped is the kind of the error wrapped with %w.
NoError == [kind |-> "nil", pos |-> 0, n |-> 0, val |-> JNull, wrapped |-> "nil", text |-> ""]
MkError(kind, pos, n, val, wrapped, text) ==
    [kind |-> kind, pos |-> pos, n |-> n, val |-> val, wrapped |-> wrapped, text |-> text]

ZeroWaypoint ==
    [Time |-> ZeroTime, Latitude |-> NilFloat, Longitude |-> NilFloat,
     BaroAltitude |-> NilFloat, TrueTrack |-> NilFloat, OnGround |-> FALSE]

---------------------------------------------------------------------------
(* parseWaypoint and numberToInt (opensky.go).                             *)

\* int64(fVal): conversion of a float64 truncates towards zero.
TruncFloor(k) == k \div Denom
TruncInt64(k) == IF k >= 0 THEN k \div Denom ELSE -((-k) \div Denom)

numberToIntLenient(val) ==
    IF val.t = "float64" \/ val.t = "bool"
    THEN [i |-> TruncInt64(val.f), err |-> NoError]
    ELSE [i |-> 0, err |-> MkError("couldn't parse as number", 0, 0, val, "nil", "")]
numberToInt(val) ==
    IF val.t # "float64"
    THEN [i |-> 0, err |-> MkError("couldn't parse as number", 0, 0, val, "nil", "")]
    ELSE [i |-> TruncInt64(val.f), err |-> NoError]

\* rawX, ok := s[k].(float64); if ok { x = &rawX }
FloatField(v) == IF v.t = "float64" THEN PtrFloat(v.f) ELSE NilFloat

MinArity == 6
\* The index the on_ground error message formats: s[8].
OnGroundMsgIndex == 8

ArityErrorLen(s, i) ==
    MkError("invalid waypoint object", Len(s), Len(s), JNull, "nil", "")
ArityError(s, i) ==
    MkError("invalid waypoint object", i, Len(s), JNull, "nil", "")

\* The result of a call: the two return values, whether the call panicked
\* instead of returning (index out of range), and the indices of s it read.
WpReturn(w, e, reads) == [waypoint |-> w, err |-> e, panic |-> FALSE, reads |-> reads]
WpPanic(reads) == [waypoint |-> ZeroWaypoint, err |-> NoError, panic |-> TRUE, reads |-> reads]

parseWaypoint(s, i) ==
    IF Len(s) < MinArity
    THEN WpReturn(ZeroWaypoint, ArityError(s, i), {})
    ELSE
    LET conv == numberToInt(At(s, 0))
        timeFails == At(s, 0) # JNull /\ conv.err # NoError
        parsedTime == IF At(s, 0) # JNull THEN Unix(conv.i) ELSE ZeroTime
        lat == FloatField(At(s, 1))
        lon == FloatField(At(s, 2))
        baroAltitude == FloatField(At(s, 3))
        trueTrack == FloatField(At(s, 4))
        ok == At(s, 5).t = "bool"
    IN  IF timeFails
        THEN WpReturn(ZeroWaypoint,
                      MkError("invalid time_position value", i, 0, conv.err.val,
                              conv.err.kind, ""),
                      {0})
        ELSE IF ~ok
        THEN IF Len(s) <= OnGroundMsgIndex
             THEN WpPanic(0..5)
             ELSE WpReturn(ZeroWaypoint,
                           MkError("invalid on_ground value", i, 0,
                                   At(s, OnGroundMsgIndex), "nil", ""),
                           (0..5) \cup {OnGroundMsgIndex})
        ELSE WpReturn([Time |-> parsedTime, Latitude |-> lat, Longitude |-> lon,
                       BaroAltitude |-> baroAltitude, TrueTrack |-> trueTrack,
                       OnGround |-> At(s, 5).b],
                      NoError, 0..5)

---------------------------------------------------------------------------
(* CallSignTrim.UnmarshalJSON (types).  Byte strings are sequences of     *)
(* one-character strings.                                                  *)

Quote == "\""
Space == " "
Tab == "\t"
Backslash == "\\"

\* The characters unicode.IsSpace accepts among those the model uses.
WhiteSpace == {Space, Tab, "\n", "\r"}

RECURSIVE TrimLeft(_, _)
TrimLeft(s, cutset) ==
    IF s # <<>> /\ Head(s) \in cutset THEN TrimLeft(Tail(s), cutset) ELSE s

RECURSIVE TrimRight(_, _)
TrimRight(s, cutset) ==
    IF s # <<>> /\ s[Len(s)] \in cutset
    THEN TrimRight(SubSeq(s, 1, Len(s) - 1), cutset)
    ELSE s

\* bytes.Trim(s, cutset): all leading and trailing bytes contained in cutset.
Trim(s, cutset) == TrimRight(TrimLeft(s, cutset), cutset)

\* strings.TrimSpace
TrimSpace(s) == Trim(s, WhiteSpace)

UnmarshalJSONNoTrimSpace(data) == Trim(Trim(data, {Quote}), {Space})
UnmarshalJSON(data) == TrimSpace(Trim(Trim(data, {Quote}), {Space}))

---------------------------------------------------------------------------
(* Inputs of the waypoint decoder.                                         *)

TimeValues == {JNull, JNum(-3), JNum(3), JStr("x"), JBool(TRUE)}
FloatValues == {JNull, JNum(0), JStr("x")}
GroundValues == {JNull, JBool(TRUE), JBool(FALSE), JNum(1)}
TailValues == {JNull, JNum(7)}

WaypointHeads ==
    {<<t, a, b, c, d, g>> : t \in TimeValues, a \in FloatValues, b \in FloatValues,
                            c \in FloatValues, d \in FloatValues, g \in GroundValues}
WaypointTails == UNION {[1..n -> TailValues] : n \in 0..MaxExtra}
WaypointArrays ==
    {SubSeq(h, 1, n) : h \in WaypointHeads, n \in 0..(MinArity - 1)}
    \cup {h \o t : h \in WaypointHeads, t \in WaypointTails}

---------------------------------------------------------------------------
(* Initial values of the state.                                            *)

InitWaypoint ==
    /\ wpArgs = [s |-> <<>>, i |-> 0]
    /\ wpRet = WpReturn(ZeroWaypoint, NoError, {})

InitCallsign ==
    /\ csData = <<>>
    /\ csValue = <<>>

\* Strings that travel through URLs and JSON are sequences of characters.
NoRequest == [url |-> <<"", "">>, accept |-> "", auth |-> FALSE, query |-> {}, rawQuery |-> <<>>]
ZeroPayload ==
    [icao24 |-> <<Quote, Quote>>, callsign |-> <<Quote, Quote>>, startTime |-> 0, endTime |-> 0,
     path |-> <<>>]
GarbageBody ==
    [kind |-> "garbage", hasMessage |-> FALSE, message |-> "", track |-> ZeroPayload,
     flights |-> <<>>]
NoResponse == [doErr |-> FALSE, status |-> 0, body |-> GarbageBody]
ZeroRaw == [Icao24 |-> <<>>, Callsign |-> <<>>, StartTime |-> 0, EndTime |-> 0, Paths |-> <<>>]
ZeroTracks ==
    [Icao24 |-> <<>>, Callsign |-> <<>>, StartTime |-> ZeroTime, EndTime |-> ZeroTime,
     Paths |-> <<>>]
NoCall ==
    [op |-> "", icao24 |-> <<>>, airport |-> <<>>, begin |-> ZeroTime, end |-> ZeroTime,
     time |-> ZeroTime]

InitClientState ==
    /\ call = NoCall
    /\ request = NoRequest
    /\ httpResponse = NoResponse
    /\ flights = <<>>
    /\ err = NoError
    /\ rawResponse = ZeroRaw
    /\ response = ZeroTracks
    /\ loopIdx = 0

waypointVars == <<wpArgs, wpRet>>
callsignVars == <<csData, csValue>>
clientVars == <<call, request, httpResponse, flights, err, rawResponse, response, loopIdx>>

---------------------------------------------------------------------------
(* The waypoint decoder called on its own.                                 *)

ParseWaypointCall ==
    /\ pc = "idle"
    /\ \E s \in WaypointArrays, i \in 0..MaxIndex :
          /\ wpArgs' = [s |-> s, i |-> i]
          /\ wpRet' = parseWaypoint(s, i)
          /\ pc' = IF parseWaypoint(s, i).panic THEN "panicked" ELSE "returned"
    /\ UNCHANGED <<callsignVars, client, clientVars>>

InitW ==
    /\ pc = "idle"
    /\ client = [username |-> "", password |-> ""]
    /\ InitWaypoint /\ InitCallsign /\ InitClientState

NextW == ParseWaypointCall

SpecWaypoint == InitW /\ [][NextW]_vars

---------------------------------------------------------------------------
(* The callsign normalizer called on its own.                              *)

Alphabet == {Quote, Space, Tab, Backslash, "A"}

\* The JSON text " \"UAL123 \" " as the decoder hands it to UnmarshalJSON,
\* and the string that text denotes.
ExampleWire ==
    <<Quote, Space, Backslash, Quote, "U", "A", "L", "1", "2", "3", Space,
      Backslash, Quote, Space, Quote>>
ExampleString == <<Space, Quote, "U", "A", "L", "1", "2", "3", Space, Quote, Space>>
UAL123 == <<"U", "A", "L", "1", "2", "3">>

RawCallsigns ==
    UNION {[1..n -> Alphabet] : n \in 0..MaxRawLen} \cup {ExampleWire, ExampleString}

UnmarshalJSONCall ==
    /\ pc = "idle"
    /\ \E data \in RawCallsigns :
          /\ csData' = data
          /\ csValue' = UnmarshalJSON(data)
    /\ pc' = "returned"
    /\ UNCHANGED <<waypointVars, client, clientVars>>

NextC == UnmarshalJSONCall

SpecCallsign == InitW /\ [][NextC]_vars

---------------------------------------------------------------------------
(* The client: newRequest, the query parameters, doHTTP (opensky.go).      *)

baseOpenSkyURL == "https://opensky-network.org/api"
StatusOK == 200

\* NewClient
NewClient(username, password) == [username |-> username, password |-> password]

\* newRequest: the Accept header, and basic authentication when both the
\* username and the password are set.
newRequest(c, path) ==
    [url |-> <<baseOpenSkyURL, path>>, accept |-> "application/json; charset=utf-8",
     auth |-> (c.username # "" /\ c.password # ""), query |-> {}, rawQuery |-> <<>>]

\* fmt.Sprintf("%v", n) of an int64: its decimal digits.
Digits == <<"0", "1", "2", "3", "4", "5", "6", "7", "8", "9">>
RECURSIVE FormatInt(_)
FormatInt(n) ==
    IF n < 0 THEN <<"-">> \o FormatInt(-n)
    ELSE IF n < 10 THEN <<Digits[n + 1]>>
    ELSE FormatInt(n \div 10) \o <<Digits[(n % 10) + 1]>>

\* url.Values.Set: the key's values are replaced by the one value.
QuerySet(q, key, value) == {e \in q : e.k # key} \cup {[k |-> key, v |-> value]}

\* url.QueryEscape on the characters the inputs use: a space becomes "+",
\* letters, digits and "-" are kept.
QueryEscape(v) == [j \in 1..Len(v) |-> IF v[j] = Space THEN "+" ELSE v[j]]

\* url.Values.Encode: key=value pairs sorted by key, values escaped.
SortedKeys == <<"airport", "begin", "end", "icao24", "time">>
RECURSIVE EncodeFrom(_, _)
EncodeFrom(q, j) ==
    IF j > Len(SortedKeys) THEN <<>>
    ELSE LET es == {e \in q : e.k = SortedKeys[j]}
         IN  (IF es = {} THEN <<>>
              ELSE LET e == CHOOSE x \in es : TRUE
                   IN  <<[k |-> e.k, v |-> QueryEscape(e.v)]>>)
             \o EncodeFrom(q, j + 1)
Encode(q) == EncodeFrom(q, 1)

\* if !t.IsZero() { q.Set(key, fmt.Sprintf("%v", t.Unix())) }
SetTimeUnlessEpoch(q, key, t) ==
    IF t.unix # 0 THEN QuerySet(q, key, FormatInt(t.unix)) ELSE q
SetTime(q, key, t) ==
    IF ~IsZero(t) THEN QuerySet(q, key, FormatInt(t.unix)) ELSE q

\* if str != "" { q.Set(key, str) }
SetString(q, key, str) ==
    IF str # <<>> THEN QuerySet(q, key, str) ELSE q

\* The request of each operation: request.URL.RawQuery = q.Encode().
WithQuery(req, q) == [req EXCEPT !.query = q, !.rawQuery = Encode(q)]

FlightsRequest(c, suffix, begin, end) ==
    WithQuery(newRequest(c, suffix), SetTime(SetTime({}, "begin", begin), "end", end))
AircraftRequest(c, icao24, begin, end) ==
    WithQuery(newRequest(c, "/flights/aircraft"),
              SetString(SetTime(SetTime({}, "begin", begin), "end", end), "icao24", icao24))
AirportRequest(c, suffix, airport, begin, end) ==
    WithQuery(newRequest(c, suffix),
              SetString(SetTime(SetTime({}, "begin", begin), "end", end), "airport", airport))
TrackRequest(c, icao24, time) ==
    WithQuery(newRequest(c, "/tracks/all"),
              SetTime(SetString({}, "icao24", icao24), "time", time))

\* encoding/json decoding a JSON string literal into a Go string: the
\* surrounding quotes are dropped and the escapes \" and \\ resolved.
RECURSIVE Unescape(_)
Unescape(s) ==
    IF s = <<>> THEN <<>>
    ELSE IF Head(s) = Backslash /\ Len(s) >= 2
    THEN <<s[2]>> \o Unescape(SubSeq(s, 3, Len(s)))
    ELSE <<Head(s)>> \o Unescape(Tail(s))
DecodeString(raw) == Unescape(SubSeq(raw, 2, Len(raw) - 1))

\* Decoding one flight object: named fields decode structurally, the
\* callsign through CallSignTrim.UnmarshalJSON.  (The airport and distance
\* fields decode like Icao24 and FirstSeen and are left out.)
DecodeFlight(f) ==
    [Icao24 |-> DecodeString(f.icao24), FirstSeen |-> f.firstSeen,
     LastSeen |-> f.lastSeen, Callsign |-> UnmarshalJSON(f.callsign)]

\* Decoding the track object into unstructuredTrackResponse: Callsign is a
\* plain string field.
DecodeTrack(p) ==
    [Icao24 |-> DecodeString(p.icao24), Callsign |-> DecodeString(p.callsign),
     StartTime |-> p.startTime, EndTime |-> p.endTime, Paths |-> p.path]

\* errors.New(message)
ErrorsNew(message) == MkError("", 0, 0, JNull, "nil", message)

\* doHTTP: the error returned, and the caller's object as left by the call
\* (target is "flights" or "track").
doHTTP(resp, target) ==
    IF resp.doErr
    THEN [err |-> MkError("transport error", 0, 0, JNull, "nil", ""),
          flights |-> <<>>, raw |-> ZeroRaw]
    ELSE IF resp.status # StatusOK
    THEN IF resp.body.kind = "object"
         THEN [err |-> ErrorsNew(IF resp.body.hasMessage THEN resp.body.message ELSE ""),
               flights |-> <<>>, raw |-> ZeroRaw]
         ELSE [err |-> MkError("unknown error, status code", 0, resp.status, JNull, "nil", ""),
               flights |-> <<>>, raw |-> ZeroRaw]
    ELSE IF target = "flights" /\ resp.body.kind = "array"
    THEN [err |-> NoError,
          flights |-> [j \in 1..Len(resp.body.flights) |-> DecodeFlight(resp.body.flights[j])],
          raw |-> ZeroRaw]
    ELSE IF target = "track" /\ resp.body.kind = "object"
    THEN [err |-> NoError, flights |-> <<>>, raw |-> DecodeTrack(resp.body.track)]
    ELSE [err |-> MkError("json decode error", 0, 0, JNull, "nil", ""),
          flights |-> <<>>, raw |-> ZeroRaw]

\* parseTracksResponse before its loop: the metadata of the track.
TrackHeader(raw) ==
    [Icao24 |-> raw.Icao24, Callsign |-> raw.Callsign,
     StartTime |-> Unix(TruncInt64(raw.StartTime)),
     EndTime |-> Unix(TruncInt64(raw.EndTime)), Paths |-> <<>>]

\* response.Paths = append(response.Paths, waypoint)
PrependWaypoint(paths, waypoint) == <<waypoint>> \o paths
AppendWaypoint(paths, waypoint) == Append(paths, waypoint)

---------------------------------------------------------------------------
(* Inputs of the client: arguments, and what the service may answer.       *)

TimeArgs == {ZeroTime, Unix(0), Unix(-7), Unix(15)}
StringArgs == {<<>>, <<"a", Space, "1">>}
Usernames == {"", "user"}
Passwords == {"", "secret"}

ErrorStatuses == {404, 503}

ObjectBody(hasMessage, message, track) ==
    [kind |-> "object", hasMessage |-> hasMessage, message |-> message, track |-> track,
     flights |-> <<>>]
ArrayBody(fs) ==
    [kind |-> "array", hasMessage |-> FALSE, message |-> "", track |-> ZeroPayload,
     flights |-> fs]

ErrorBodies ==
    {ObjectBody(FALSE, "", ZeroPayload), ObjectBody(TRUE, "", ZeroPayload),
     ObjectBody(TRUE, "Not Found", ZeroPayload)}

FlightWire(callsign) ==
    [icao24 |-> <<Quote, "a", "1", Quote>>, firstSeen |-> 10, lastSeen |-> 20,
     callsign |-> callsign]
FlightWires ==
    {FlightWire(<<Quote, "A", Quote>>), FlightWire(<<Quote, "A", Space, Space, Quote>>),
     FlightWire(ExampleWire)}
FlightArrays == UNION {[1..n -> FlightWires] : n \in 0..2}

\* Waypoint arrays of a track: two valid ones, and one failing each check.
WpA == <<JNum(3), JNum(0), JNull, JStr("x"), JNum(0), JBool(TRUE)>>
WpB == <<JNull, JNull, JNull, JNull, JNull, JBool(FALSE), JNum(7), JNull, JNull>>
WpShort == <<JNum(3), JNum(0)>>
WpBadTime == <<JStr("x"), JNum(0), JNum(0), JNum(0), JNum(0), JBool(TRUE)>>
WpBadGround == <<JNum(3), JNum(0), JNum(0), JNum(0), JNum(0), JNull>>
WpBadGroundLong == <<JNull, JNull, JNull, JNull, JNull, JNum(1), JNull, JNull, JNum(7)>>
TrackWaypoints == {WpA, WpB, WpShort, WpBadTime, WpBadGround, WpBadGroundLong}

PathLists == UNION {[1..n -> TrackWaypoints] : n \in 0..MaxPaths}
TrackCallsigns == {<<Quote, "A", Quote>>, <<Quote, "A", Space, Space, Quote>>}
TrackPayload(callsign, path) ==
    [icao24 |-> <<Quote, "a", "1", Quote>>, callsign |-> callsign, startTime |-> 3,
     endTime |-> -3, path |-> path]
TrackBodies ==
    {ObjectBody(FALSE, "", TrackPayload(c, p)) : c \in TrackCallsigns, p \in PathLists}

Response(status, body) == [doErr |-> FALSE, status |-> status, body |-> body]
TransportFailure == [doErr |-> TRUE, status |-> 0, body |-> GarbageBody]

FlightsResponses ==
    {TransportFailure}
    \cup {Response(s, b) : s \in ErrorStatuses,
                           b \in {GarbageBody, ArrayBody(<<>>)} \cup ErrorBodies}
    \cup {Response(StatusOK, b) :
              b \in {GarbageBody, ObjectBody(TRUE, "Not Found", ZeroPayload)}
                    \cup {ArrayBody(fs) : fs \in FlightArrays}}
TrackResponses ==
    {TransportFailure}
    \cup {Response(s, b) :
              s \in ErrorStatuses,
              b \in {GarbageBody, ArrayBody(<<>>),
                     ObjectBody(FALSE, "", TrackPayload(<<Quote, "A", Quote>>, <<WpA>>))}
                    \cup ErrorBodies}
    \cup {Response(StatusOK, b) : b \in {GarbageBody, ArrayBody(<<>>)} \cup TrackBodies}

---------------------------------------------------------------------------
(* The query operations of Client.                                         *)

CallOf(op, icao24, airport, begin, end, time) ==
    [op |-> op, icao24 |-> icao24, airport |-> airport, begin |-> begin, end |-> end,
     time |-> time]

\* A flights operation from the built request on: doHTTP(request, &flights).
FetchFlights(c, req) ==
    /\ pc = "idle"
    /\ call' = c
    /\ request' = req
    /\ \E resp \in FlightsResponses :
          /\ httpResponse' = resp
          /\ flights' = doHTTP(resp, "flights").flights
          /\ err' = doHTTP(resp, "flights").err
    /\ pc' = "returned"
    /\ UNCHANGED <<waypointVars, callsignVars, client, rawResponse, response, loopIdx>>

GetFlights ==
    \E begin \in TimeArgs, end \in TimeArgs :
        FetchFlights(CallOf("GetFlights", <<>>, <<>>, begin, end, ZeroTime),
                     FlightsRequest(client, "/flights/all", begin, end))

GetFlightsByAircraft ==
    \E icao24 \in StringArgs, begin \in TimeArgs, end \in TimeArgs :
        FetchFlights(CallOf("GetFlightsByAircraft", icao24, <<>>, begin, end, ZeroTime),
                     AircraftRequest(client, icao24, begin, end))

GetFlightsByInterval ==
    \E begin \in TimeArgs, end \in TimeArgs :
        FetchFlights(CallOf("GetFlightsByInterval", <<>>, <<>>, begin, end, ZeroTime),
                     FlightsRequest(client, "/flights/all", begin, end))

GetFlightsByArrival ==
    \E airport \in StringArgs, begin \in TimeArgs, end \in TimeArgs :
        FetchFlights(CallOf("GetFlightsByArrival", <<>>, airport, begin, end, ZeroTime),
                     AirportRequest(client, "/flights/arrival", airport, begin, end))

GetFlightsByDeparture ==
    \E airport \in StringArgs, begin \in TimeArgs, end \in TimeArgs :
        FetchFlights(CallOf("GetFlightsByDeparture", <<>>, airport, begin, end, ZeroTime),
                     AirportRequest(client, "/flights/departure", airport, begin, end))

\* GetTrackByAircraft up to the loop of parseTracksResponse: the request,
\* doHTTP into rawResponse, and on success the metadata of the track.
GetTrackByAircraft ==
    /\ pc = "idle"
    /\ \E icao24 \in StringArgs, time \in TimeArgs, resp \in TrackResponses :
          LET r == doHTTP(resp, "track")
          IN  /\ call' = CallOf("GetTrackByAircraft", icao24, <<>>, ZeroTime, ZeroTime, time)
              /\ request' = TrackRequest(client, icao24, time)
              /\ httpResponse' = resp
              /\ err' = r.err
              /\ rawResponse' = r.raw
              /\ response' = IF r.err # NoError THEN ZeroTracks ELSE TrackHeader(r.raw)
              /\ pc' = IF r.err # NoError THEN "returned" ELSE "parse"
    /\ loopIdx' = 0
    /\ UNCHANGED <<waypointVars, callsignVars, client, flights>>

\* One iteration of "for i, s := range rawResponse.Paths".
ParseTracksStep ==
    /\ pc = "parse"
    /\ loopIdx < Len(rawResponse.Paths)
    /\ LET r == parseWaypoint(At(rawResponse.Paths, loopIdx), loopIdx)
       IN  IF r.panic
           THEN /\ pc' = "panicked"
                /\ UNCHANGED <<err, response, loopIdx>>
           ELSE IF r.err # NoError
           THEN /\ pc' = "returned"
                /\ err' = r.err
                /\ UNCHANGED <<response, loopIdx>>
           ELSE /\ response' = [response EXCEPT !.Paths = AppendWaypoint(@, r.waypoint)]
                /\ loopIdx' = loopIdx + 1
                /\ UNCHANGED <<pc, err>>
    /\ UNCHANGED <<waypointVars, callsignVars, client, call, request, httpResponse,
                   flights, rawResponse>>

\* The loop is over: parseTracksResponse and GetTrackByAircraft return.
ParseTracksReturn ==
    /\ pc = "parse"
    /\ loopIdx = Len(rawResponse.Paths)
    /\ pc' = "returned"
    /\ UNCHANGED <<waypointVars, callsignVars, client, clientVars>>

Init ==
    /\ pc = "idle"
    /\ \E u \in Usernames, p \in Passwords : client = NewClient(u, p)
    /\ InitWaypoint /\ InitCallsign /\ InitClientState

Next ==
    \/ GetFlights
    \/ GetFlightsByAircraft
    \/ GetFlightsByInterval
    \/ GetFlightsByArrival
    \/ GetFlightsByDeparture
    \/ GetTrackByAircraft
    \/ ParseTracksStep
    \/ ParseTracksReturn

Spec == Init /\ [][Next]_vars

---------------------------------------------------------------------------
(* Claims about parseWaypoint, checked under SpecWaypoint.                 *)

WpCalled == pc \in {"returned", "panicked"}
TimeOk(s) == At(s, 0).t \in {"nil", "float64"}

\* The integer part of k/Denom, stated without the division the model uses.
IntegerPart(k) ==
    CHOOSE q \in -10..10 :
        IF k >= 0 THEN q * Denom <= k /\ k < (q + 1) * Denom
                  ELSE (q - 1) * Denom < k /\ k <= q * Denom

\* A field of the waypoint is present with the raw value iff the element is
\* a number, and absent otherwise.
FieldReflects(ptr, v) ==
    IF v.t = "float64" THEN ptr.present /\ ptr.v = v.f ELSE ~ptr.present

\* C1: for every array of length >= 6 whose element 0 is null or numeric and
\* whose element 5 is not a boolean, parseWaypoint returns an error value
\* citing index i and never terminates abnormally (lengths 6, 7, 8 included).
C1_OnGroundFailureIsError ==
    (WpCalled /\ Len(wpArgs.s) >= 6 /\ TimeOk(wpArgs.s) /\ At(wpArgs.s, 5).t # "bool")
        => /\ ~wpRet.panic
           /\ pc = "returned"
           /\ wpRet.err.kind = "invalid on_ground value"
           /\ wpRet.err.pos = wpArgs.i

\* C3: for every array of length >= 6 with a boolean element 5 and a null or
\* numeric element 0, parseWaypoint succeeds; the timestamp is the zero value
\* iff element 0 is null and otherwise Unix(truncated element 0); elements
\* 1..4 are present with the raw value iff they are numbers; on_ground is
\* element 5; elements at index >= 6 do not change the result.
C3_ValidWaypointDecoded ==
    (WpCalled /\ Len(wpArgs.s) >= 6 /\ TimeOk(wpArgs.s) /\ At(wpArgs.s, 5).t = "bool")
        => LET s == wpArgs.s
               w == wpRet.waypoint
           IN  /\ ~wpRet.panic
               /\ wpRet.err = NoError
               /\ (w.Time = ZeroTime) <=> (At(s, 0) = JNull)
               /\ IsZero(w.Time) <=> (At(s, 0) = JNull)
               /\ At(s, 0).t = "float64" => w.Time = Unix(IntegerPart(At(s, 0).f))
               /\ FieldReflects(w.Latitude, At(s, 1))
               /\ FieldReflects(w.Longitude, At(s, 2))
               /\ FieldReflects(w.BaroAltitude, At(s, 3))
               /\ FieldReflects(w.TrueTrack, At(s, 4))
               /\ w.OnGround = At(s, 5).b
               /\ \A t \in WaypointTails :
                      LET other == parseWaypoint(SubSeq(s, 1, 6) \o t, wpArgs.i)
                      IN  other.waypoint = w /\ other.err = wpRet.err
                          /\ other.panic = wpRet.panic

\* A call with a negative fractional time, absent and present fields and
\* trailing elements has returned a waypoint.
C3_Witness ==
    /\ pc = "returned"
    /\ wpArgs.s = <<JNum(-3), JNum(0), JNull, JStr("x"), JNum(0), JBool(TRUE), JNum(7), JNull>>
    /\ wpRet.err = NoError
    /\ wpRet.waypoint.Time = Unix(-1)
    /\ wpRet.waypoint.Latitude = PtrFloat(0)
    /\ wpRet.waypoint.Longitude = NilFloat
    /\ wpRet.waypoint.OnGround

\* C4: for every array of length < 6 (the empty one included) and every i,
\* parseWaypoint fails with the arity error reporting index i, and reads no
\* element of the array.
C4_ShortArrayRejected ==
    (WpCalled /\ Len(wpArgs.s) < 6)
        => /\ pc = "returned"
           /\ ~wpRet.panic
           /\ wpRet.err.kind = "invalid waypoint object"
           /\ wpRet.err.pos = wpArgs.i
           /\ wpRet.err.n = Len(wpArgs.s)
           /\ wpRet.reads = {}
           /\ wpRet.waypoint = ZeroWaypoint

\* A five-element array was rejected at index 2.
C4_Witness ==
    /\ pc = "returned"
    /\ Len(wpArgs.s) = 5
    /\ wpArgs.i = 2
    /\ wpRet.err.kind = "invalid waypoint object"
    /\ wpRet.err.pos = 2

\* C5: for every array of length >= 6 whose element 0 is neither null nor a
\* number, parseWaypoint fails with the time_position error, which wraps the
\* error of numberToInt and cites index i, whatever elements 1..5 are.
C5_BadTimeRejected ==
    (WpCalled /\ Len(wpArgs.s) >= 6 /\ ~TimeOk(wpArgs.s))
        => /\ pc = "returned"
           /\ ~wpRet.panic
           /\ wpRet.err.kind = "invalid time_position value"
           /\ wpRet.err.wrapped = "couldn't parse as number"
           /\ wpRet.err.val = At(wpArgs.s, 0)
           /\ wpRet.err.pos = wpArgs.i
           /\ wpRet.waypoint = ZeroWaypoint

\* A six-element array with a boolean time and a null on_ground was rejected
\* for its time, not for its on_ground.
C5_Witness ==
    /\ pc = "returned"
    /\ Len(wpArgs.s) = 6
    /\ At(wpArgs.s, 0) = JBool(TRUE)
    /\ At(wpArgs.s, 5) = JNull
    /\ wpArgs.i = 1
    /\ wpRet.err.kind = "invalid time_position value"

---------------------------------------------------------------------------
(* Claims about CallSignTrim.UnmarshalJSON, checked under SpecCallsign.    *)

\* trim_quotes as the claim states it: exactly one layer of surrounding
\* quote characters, if present.
StripOneQuoteLayer(d) ==
    IF Len(d) >= 2 /\ d[1] = Quote /\ d[Len(d)] = Quote
    THEN SubSeq(d, 2, Len(d) - 1)
    ELSE d

CleanEnd(c) == c \notin WhiteSpace \cup {Quote, Backslash}

\* C6 (as claimed): the normalizer computes trim(trim_quotes(raw)) with
\* trim_quotes stripping exactly one layer of surrounding quotes, and the
\* callsign " \"UAL123 \" " normalizes to UAL123, no quote, backslash or
\* whitespace remaining at either end.
C6_OneLayerThenTrim ==
    pc = "returned"
        => /\ csValue = TrimSpace(StripOneQuoteLayer(csData))
           /\ csData \in {ExampleWire, ExampleString}
                  => /\ csValue = UAL123
                     /\ CleanEnd(csValue[1])
                     /\ CleanEnd(csValue[Len(csValue)])

\* The bytes of s are all quotes up to some point and all white space after.
QuotesThenSpace(s) ==
    \E m \in 0..Len(s) :
        /\ \A j \in 1..m : s[j] = Quote
        /\ \A j \in (m + 1)..Len(s) : s[j] \in WhiteSpace
SpaceThenQuotes(s) ==
    \E m \in 0..Len(s) :
        /\ \A j \in 1..m : s[j] \in WhiteSpace
        /\ \A j \in (m + 1)..Len(s) : s[j] = Quote

\* C6 (amended): the normalizer removes from each end of the raw bytes every
\* quote character and then every white-space character, without unescaping:
\* the result is raw without a leading run quote* space* and a trailing run
\* space* quote*, each quote run maximal, and has no white space at either
\* end; the JSON text " \"UAL123 \" " normalizes to \"UAL123 \" and the
\* string it denotes to "UAL123 ".
C6_AllQuotesThenTrim ==
    pc = "returned"
        => /\ \E a \in 0..Len(csData), b \in 0..Len(csData) :
                 /\ a + b <= Len(csData)
                 /\ csValue = SubSeq(csData, a + 1, Len(csData) - b)
                 /\ QuotesThenSpace(SubSeq(csData, 1, a))
                 /\ SpaceThenQuotes(SubSeq(csData, Len(csData) - b + 1, Len(csData)))
                 /\ (csValue # <<>> /\ csValue[1] = Quote)
                        => (a > 0 /\ csData[a] \in WhiteSpace)
                 /\ (csValue # <<>> /\ csValue[Len(csValue)] = Quote)
                        => (b > 0 /\ csData[Len(csData) - b + 1] \in WhiteSpace)
           /\ csValue # <<>>
                  => csValue[1] \notin WhiteSpace /\ csValue[Len(csValue)] \notin WhiteSpace
           /\ csData = ExampleWire
                  => csValue = <<Backslash, Quote, "U", "A", "L", "1", "2", "3", Space,
                                 Backslash, Quote>>
           /\ csData = ExampleString
                  => csValue = <<Quote, "U", "A", "L", "1", "2", "3", Space, Quote>>

\* The example JSON text has been normalized, and keeps a backslash in front
\* and a quote behind.
C6_Witness ==
    /\ pc = "returned"
    /\ csData = ExampleWire
    /\ csValue[1] = Backslash
    /\ csValue[Len(csValue)] = Quote

---------------------------------------------------------------------------
(* Claims about the client and the track assembler, checked under Spec.    *)

TrackCall == call.op = "GetTrackByAircraft"
\* doHTTP succeeded, so parseTracksResponse was entered.
Assembling == TrackCall /\ httpResponse.status = StatusOK /\ httpResponse.body.kind = "object"
              /\ ~httpResponse.doErr

\* A waypoint array is invalid when it fails one of the mandatory checks:
\* arity, time when present, on_ground.
InvalidWaypoint(s) ==
    \/ Len(s) < 6
    \/ At(s, 0).t \notin {"nil", "float64"}
    \/ At(s, 5).t # "bool"
HasInvalid(paths) == \E j \in 1..Len(paths) : InvalidWaypoint(paths[j])
\* The Go index of the first invalid waypoint.
FirstInvalid(paths) ==
    (CHOOSE j \in 1..Len(paths) :
        InvalidWaypoint(paths[j]) /\ \A h \in 1..(j - 1) : ~InvalidWaypoint(paths[h])) - 1

\* C2: track assembly is fail-fast: when the waypoint at index k is invalid
\* and those before it are valid, parseTracksResponse (and so
\* GetTrackByAircraft) returns a failure referencing index k, processes no
\* element after k, and the track value returned with the failure contains
\* none of the k waypoints already decoded.  (Stated of the calls that
\* return; the call that panics on its on_ground message is C1's.)
C2_FailFastNoPartialResult ==
    (Assembling /\ pc = "returned" /\ HasInvalid(rawResponse.Paths))
        => /\ err # NoError
           /\ err.pos = FirstInvalid(rawResponse.Paths)
           /\ loopIdx = FirstInvalid(rawResponse.Paths)
           /\ response.Paths = <<>>

\* C7: the Callsign of the GetTracksResponse returned by GetTrackByAircraft
\* is the normalized form of the wire callsign, as a Flight's callsign is.
C7_TrackCallsignNormalized ==
    (Assembling /\ pc = "returned" /\ err = NoError)
        => response.Callsign = UnmarshalJSON(httpResponse.body.track.callsign)

\* The number a sequence of decimal digits with an optional sign denotes.
RECURSIVE DigitsValue(_)
DigitsValue(ds) ==
    IF ds = <<>> THEN 0
    ELSE 10 * DigitsValue(SubSeq(ds, 1, Len(ds) - 1))
         + (CHOOSE d \in 0..9 : Digits[d + 1] = ds[Len(ds)])
DecimalValue(v) == IF Head(v) = "-" THEN -DigitsValue(Tail(v)) ELSE DigitsValue(v)

HasParam(key) == \E e \in request.query : e.k = key
ParamValues(key) == {e.v : e \in {x \in request.query : x.k = key}}
InRawQuery(key) == \E j \in 1..Len(request.rawQuery) : request.rawQuery[j].k = key

TimeParamOk(key, t) ==
    /\ HasParam(key) <=> ~IsZero(t)
    /\ InRawQuery(key) <=> ~IsZero(t)
    /\ \A v \in ParamValues(key) : DecimalValue(v) = t.unix
StringParamOk(key, str) ==
    /\ HasParam(key) <=> str # <<>>
    /\ InRawQuery(key) <=> str # <<>>
    /\ \A v \in ParamValues(key) : v = str

\* C8: for each query operation a parameter is in the request URL iff its
\* argument is set: begin, end and time iff the time is non-zero, then with
\* its epoch seconds; icao24 and airport iff the string is non-empty.
C8_ParamsIffSet ==
    call.op # ""
        => /\ TimeParamOk("begin", call.begin)
           /\ TimeParamOk("end", call.end)
           /\ TimeParamOk("time", call.time)
           /\ StringParamOk("icao24", call.icao24)
           /\ StringParamOk("airport", call.airport)
           /\ \A e \in request.query : e.k \in {"begin", "end", "time", "icao24", "airport"}
           /\ Len(request.rawQuery) = Cardinality(request.query)

\* GetFlightsByAircraft was called with begin at the epoch (a non-zero time),
\* end unset and an aircraft: begin=0 and icao24 are in the URL, end is not.
C8_Witness ==
    /\ call.op = "GetFlightsByAircraft"
    /\ call.begin = Unix(0)
    /\ call.end = ZeroTime
    /\ call.icao24 # <<>>
    /\ [k |-> "begin", v |-> <<"0">>] \in request.query
    /\ ~HasParam("end")
    /\ HasParam("icao24")

\* The text of a non-nil error: empty only for errors.New("").
EmptyText(e) == e.kind = "" /\ e.text = ""

\* C9: for every response with a status other than 200 doHTTP returns a
\* non-nil error and leaves the caller's object undecoded; the error text is
\* the message of a parsed error body, the generic "unknown error, status
\* code: N" for an unparseable one, and never empty.
C9_UpstreamErrorHasText ==
    (call.op # "" /\ ~httpResponse.doErr /\ httpResponse.status # StatusOK)
        => /\ err # NoError
           /\ flights = <<>>
           /\ rawResponse = ZeroRaw
           /\ response = ZeroTracks
           /\ (httpResponse.body.kind = "object" /\ httpResponse.body.hasMessage)
                  => (err.kind = "" /\ err.text = httpResponse.body.message)
           /\ httpResponse.body.kind # "object"
                  => (err.kind = "unknown error, status code" /\ err.n = httpResponse.status)
           /\ ~EmptyText(err)

\* C10: order preservation: after each loop step the accumulated waypoints
\* are the decodings of the raw arrays 0..j in order, and when
\* parseTracksResponse succeeds the track has exactly the n waypoints of the
\* n raw arrays, waypoint j decoded from raw array j with index j.
C10_OrderPreserved ==
    (Assembling /\ pc \in {"parse", "returned"})
        => /\ Len(response.Paths) = loopIdx
           /\ \A j \in 0..(loopIdx - 1) :
                  LET r == parseWaypoint(At(rawResponse.Paths, j), j)
                  IN  r.err = NoError /\ ~r.panic /\ At(response.Paths, j) = r.waypoint
           /\ (pc = "returned" /\ err = NoError)
                  => Len(response.Paths) = Len(rawResponse.Paths)

\* A track of three raw arrays, two of them different, was assembled.
C10_Witness ==
    /\ Assembling
    /\ pc = "returned"
    /\ err = NoError
    /\ rawResponse.Paths = <<WpA, WpB, WpA>>
    /\ Len(response.Paths) = 3
    /\ response.Paths[1] # response.Paths[2]

=============================================================================
